---- MODULE Spec2Model ----
(***************************************************************************)
(* Image2Emoji (emoji.py): the PNG extractor that scans the Apple Color    *)
(* Emoji font for embedded PNG streams, and the mosaic main program that   *)
(* builds a palette of emoji, matches every source pixel to its nearest    *)
(* emoji and pastes it on the canvas.                                      *)
(*                                                                         *)
(* Three specifications share the variables:                               *)
(*   SpecWalk     EmojiExtractor._extract_png from any start position      *)
(*   SpecExtract  EmojiExtractor.extract_emoji over a font blob            *)
(*   Spec         the __main__ program                                     *)
(***************************************************************************)
EXTENDS Integers, Sequences, FiniteSets, TLC

VARIABLES
    pc,        \* position of the program
    font,      \* EmojiExtractor.font: the bytes of the font file
    size,      \* the size argument of extract_emoji
    made,      \* how the blob was put together (segments, cut, streams)
    locs,      \* the match locations re.finditer has still to yield
    counter,   \* extract_emoji's counter
    dir,       \* the files of ./emoji, in the order they were created
    raised,    \* the exception that left the running function, or "none"
    walk,      \* _extract_png's locals: position, index, emoji, iterations
    args,      \* the parsed command line: emoji, emoji_size, transparency
    fs,        \* the file system: the font, ./emoji, the tile listing
    emoji,     \* the list of Emoji objects (the palette)
    image,     \* the Picture's working image: width, height, mode, pixels
    canvas,    \* the Picture's canvas: mode, size, pixels
    previous_colours,  \* the dict from a colour to the emoji matched to it
    colour,    \* the pixel read last
    out_emoji, \* the emoji chosen last (an index into emoji)
    pos,       \* the cells the loop has finished, in row-major order
    pasted,    \* the cells paste_emoji was called for
    lookups,   \* how many times previous_colours was looked up
    last,      \* what the last iteration did: skip, hit, scan
    saved,     \* save_canvas wrote the output image
    exit_status, \* the exit status of the process once it ended
    message    \* the failure message printed for the user, if any

xvars == <<font, size, made, locs, counter, dir, raised, walk>>

mvars == <<args, fs, emoji, image, canvas, previous_colours, colour,
           out_emoji, pos, pasted, lookups, last, saved, exit_status, message>>

vars == <<pc, xvars, mvars>>

----------------------------------------------------------------------------
(* Bounds of the model. *)

\* Most segments a font blob is put together from.
MaxSegs == 2

\* Values of 2^29 and above are all represented by 2^29: every such value
\* is only ever compared with offsets into the blob and with the target
\* size, all far below it (Python's integers do not overflow).
Huge == 536870912

----------------------------------------------------------------------------
(* Bytes. *)

Min(a, b) == IF a < b THEN a ELSE b

SatAdd(a, b) == Min(a + b, Huge)

\* b"\x89PNG\r\n\x1a\n"
Signature == <<137, 80, 78, 71, 13, 10, 26, 10>>

IHDR == <<73, 72, 68, 82>>

IDAT == <<73, 68, 65, 84>>

IEND == <<73, 69, 78, 68>>

tEXt == <<116, 69, 88, 116>>

\* Python's f[a:b] for 0 <= a: the bytes at offsets a .. b-1 that exist.
Slice(f, a, b) == SubSeq(f, a + 1, Min(b, Len(f)))

\* struct.unpack(">I", b)[0] of a 4-byte buffer: big-endian unsigned.
Unpack(b) ==
    IF b[1] >= 32 THEN Huge
    ELSE b[1] * 16777216 + b[2] * 65536 + b[3] * 256 + b[4]

\* struct.unpack raises struct.error unless the buffer holds 4 bytes.
CanUnpack(b) == Len(b) = 4

----------------------------------------------------------------------------
(* EmojiExtractor._extract_png *)

\* The metadata the first read adds to the IHDR length: signature (8),
\* length (4), type (4), CRC (4).
FirstSpan(length) == SatAdd(length, 20)

\* A span that leaves out the 12 bytes of length, type and CRC.
ChunkSpanNoMeta(length) == length

\* The bytes a chunk of the declared length occupies: length (4), type (4),
\* data, CRC (4).
ChunkSpan(length) == SatAdd(length, 12)

\* Lines 33-39: the signature and the IHDR chunk.
extract_png_first(f, position) ==
    LET hdr == Slice(f, position + 8, position + 12) IN
    IF ~CanUnpack(hdr)
    THEN [position |-> position, index |-> position, emoji |-> <<>>,
          iters |-> 0, status |-> "error"]
    ELSE LET chunk_size == FirstSpan(Unpack(hdr)) IN
         [position |-> position,
          index |-> SatAdd(position, chunk_size),
          emoji |-> Slice(f, position, SatAdd(position, chunk_size)),
          iters |-> 0, status |-> "run"]

\* Lines 41-51: one iteration of the while loop.
extract_png_loop(f, w) ==
    LET hdr == Slice(f, w.index, w.index + 4) IN
    IF ~CanUnpack(hdr)
    THEN [w EXCEPT !.status = "error", !.iters = @ + 1]
    ELSE LET chunk_size == ChunkSpan(Unpack(hdr))
             chunk == Slice(f, w.index, SatAdd(w.index, chunk_size))
         IN  IF Slice(f, w.index + 4, w.index + 8) = IEND
             THEN [w EXCEPT !.emoji = @ \o chunk, !.status = "done",
                            !.iters = @ + 1]
             ELSE [w EXCEPT !.emoji = @ \o chunk,
                            !.index = SatAdd(@, chunk_size),
                            !.iters = @ + 1]

RECURSIVE extract_png_run(_, _)
extract_png_run(f, w) ==
    IF w.status = "run" THEN extract_png_run(f, extract_png_loop(f, w)) ELSE w

\* _extract_png(position): the locals when it returns or raises.
extract_png(f, position) == extract_png_run(f, extract_png_first(f, position))

----------------------------------------------------------------------------
(* EmojiExtractor.extract_emoji *)

\* The offsets at or after from where the signature occurs.
Occurrences(f, from) ==
    {i \in from..(Len(f) - 8) : Slice(f, i, i + 8) = Signature}

SetMin(S) == CHOOSE x \in S : \A y \in S : x <= y

\* re.finditer(signature, font): the start offsets of the matches, ascending.
\* A match resumes after the previous one; the signature cannot overlap
\* itself, so the matches are its occurrences.
RECURSIVE finditer(_, _)
finditer(f, from) ==
    LET occ == Occurrences(f, from) IN
    IF occ = {} THEN <<>>
    ELSE <<SetMin(occ)>> \o finditer(f, SetMin(occ) + 8)

\* Line 66: the width field can be read.
WidthReadable(f, location) == CanUnpack(Slice(f, location + 16, location + 20))

WidthAt(f, location) == Unpack(Slice(f, location + 16, location + 20))

\* Lines 65-70 for one match: st is [counter, dir, raised].
extract_iter(f, sz, st, location) ==
    IF ~WidthReadable(f, location)
    THEN [st EXCEPT !.raised = "struct.error"]
    ELSE IF sz # WidthAt(f, location) THEN st
    ELSE LET w == extract_png(f, location)
             \* open(file_path, "wb") has created the file before
             \* _extract_png runs
             file == [name |-> st.counter, start |-> location,
                      data |-> IF w.status = "done" THEN w.emoji ELSE <<>>]
         IN  [counter |-> st.counter + 1,
              dir |-> Append(st.dir, file),
              raised |-> IF w.status = "done" THEN "none" ELSE "struct.error"]

\* The for loop of extract_emoji over the remaining matches; an exception
\* ends it.
RECURSIVE extract_loop(_, _, _, _)
extract_loop(f, sz, st, ls) ==
    IF ls = <<>> \/ st.raised # "none" THEN st
    ELSE extract_loop(f, sz, extract_iter(f, sz, st, Head(ls)), Tail(ls))

\* extract_emoji(size) on an empty ./emoji.
extract_emoji(f, sz) ==
    extract_loop(f, sz, [counter |-> 0, dir |-> <<>>, raised |-> "none"],
                 finditer(f, 0))

----------------------------------------------------------------------------
(* Font blobs: segments laid end to end, the last bytes possibly missing. *)

BE32(n) == <<0, 0, n \div 256, n % 256>>

Crc == <<222, 173, 190, 239>>

Chunk(tag, data) == BE32(Len(data)) \o tag \o data \o Crc

IhdrData(w) == BE32(w) \o BE32(w) \o <<8, 6, 0, 0, 0>>

Png(w, body) ==
    Signature \o Chunk(IHDR, IhdrData(w)) \o body \o Chunk(IEND, <<>>)

SegKinds == {"fill", "p1", "p2", "nest", "stray"}

\* filler; a stream of width 1; a stream of width 2 with an empty chunk; a
\* stream of width 1 whose IDAT data holds the bytes of a PNG stream; a
\* bare signature among the filler.
SegBytes(k) ==
    CASE k = "fill" -> <<0, 7>>
      [] k = "p1" -> Png(1, Chunk(IDAT, <<0, 0, 0, 255>>))
      [] k = "p2" -> Png(2, Chunk(IDAT, <<255, 255, 255, 255>>) \o Chunk(tEXt, <<>>))
      [] k = "nest" -> Png(1, Chunk(IDAT, Png(1, <<>>)))
      [] k = "stray" -> Signature

SegWidth(k) == CASE k = "p2" -> 2 [] OTHER -> 1

IsStream(k) == k \in {"p1", "p2", "nest"}

RECURSIVE Concat(_)
Concat(ks) == IF ks = <<>> THEN <<>> ELSE SegBytes(Head(ks)) \o Concat(Tail(ks))

\* The well-formed streams laid down by ks, from offset off on.
RECURSIVE Streams(_, _)
Streams(ks, off) ==
    IF ks = <<>> THEN <<>>
    ELSE LET n == Len(SegBytes(Head(ks))) IN
         (IF IsStream(Head(ks))
          THEN <<[start |-> off, len |-> n, width |-> SegWidth(Head(ks))]>>
          ELSE <<>>) \o Streams(Tail(ks), off + n)

SeqsUpTo(S, n) == UNION {[1..m -> S] : m \in 0..n}

\* How many bytes are missing at the end of the blob.
Cuts == {0, 2, 14, 30}

Sizes == {1, 2}

Blobs ==
    {[kinds |-> ks, cut |-> c] :
        ks \in SeqsUpTo(SegKinds, MaxSegs), c \in Cuts}

BlobBytes(b) ==
    LET all == Concat(b.kinds) IN
    SubSeq(all, 1, IF Len(all) >= b.cut THEN Len(all) - b.cut ELSE 0)

\* The streams of the blob that are whole.
BlobStreams(b) ==
    SelectSeq(Streams(b.kinds, 0),
              LAMBDA s : s.start + s.len <= Len(BlobBytes(b)))

NoMade == [kinds |-> <<>>, cut |-> 0, streams |-> <<>>]

NoFont == [kinds |-> <<>>, cut |-> 0]

NoImage == [width |-> 0, height |-> 0, mode |-> "none", px |-> <<>>]

NoCanvas == [mode |-> "none", size |-> <<0, 0>>, px |-> <<>>]

\* The main program has not run.
MainIdle ==
    /\ args = [emoji |-> "none", emoji_size |-> 0, transparency |-> FALSE]
    /\ fs = [font_exists |-> FALSE, font |-> NoFont, emoji_dir |-> "absent",
             listing |-> <<>>]
    /\ emoji = <<>> /\ image = NoImage /\ canvas = NoCanvas
    /\ previous_colours = <<>> /\ colour = <<>> /\ out_emoji = 0
    /\ pos = 0 /\ pasted = {} /\ lookups = 0 /\ last = "none"
    /\ saved = FALSE /\ exit_status = "running" /\ message = "none"

NoWalk == [position |-> 0, index |-> 0, emoji |-> <<>>, iters |-> 0,
           status |-> "none"]

----------------------------------------------------------------------------
(* SpecWalk: _extract_png(position) for any blob and start position. *)

InitWalk ==
    \E b \in Blobs :
        /\ font = BlobBytes(b)
        /\ made = [kinds |-> b.kinds, cut |-> b.cut, streams |-> BlobStreams(b)]
        /\ \E p \in 0..Len(BlobBytes(b)) :
               walk = [NoWalk EXCEPT !.position = p, !.index = p]
        /\ pc = "w_call"
        /\ size = 0 /\ locs = <<>> /\ counter = 0 /\ dir = <<>>
        /\ raised = "none"
        /\ MainIdle

\* Lines 33-39.
WalkFirst ==
    /\ pc = "w_call"
    /\ walk' = extract_png_first(font, walk.position)
    /\ pc' = IF walk'.status = "error" THEN "w_raised" ELSE "w_loop"
    /\ raised' = IF walk'.status = "error" THEN "struct.error" ELSE raised
    /\ UNCHANGED <<font, size, made, locs, counter, dir>>
    /\ UNCHANGED mvars

\* Lines 42, 49-51: a chunk that is not IEND.
WalkChunk ==
    /\ pc = "w_loop"
    /\ extract_png_loop(font, walk).status = "run"
    /\ walk' = extract_png_loop(font, walk)
    /\ UNCHANGED <<pc, font, size, made, locs, counter, dir, raised>>
    /\ UNCHANGED mvars

\* Lines 42-47, 53: the IEND chunk.
WalkIEND ==
    /\ pc = "w_loop"
    /\ extract_png_loop(font, walk).status = "done"
    /\ walk' = extract_png_loop(font, walk)
    /\ pc' = "w_returned"
    /\ UNCHANGED <<font, size, made, locs, counter, dir, raised>>
    /\ UNCHANGED mvars

\* Line 42: struct.unpack raises past the end of the blob.
WalkRaise ==
    /\ pc = "w_loop"
    /\ extract_png_loop(font, walk).status = "error"
    /\ walk' = extract_png_loop(font, walk)
    /\ pc' = "w_raised"
    /\ raised' = "struct.error"
    /\ UNCHANGED <<font, size, made, locs, counter, dir>>
    /\ UNCHANGED mvars

NextWalk == WalkFirst \/ WalkChunk \/ WalkIEND \/ WalkRaise

SpecWalk == InitWalk /\ [][NextWalk]_vars

----------------------------------------------------------------------------
(* SpecExtract: extract_emoji(size) over a font blob, ./emoji empty. *)

InitExtract ==
    \E b \in Blobs, sz \in Sizes :
        /\ font = BlobBytes(b)
        /\ made = [kinds |-> b.kinds, cut |-> b.cut, streams |-> BlobStreams(b)]
        /\ size = sz
        /\ pc = "x_call"
        /\ locs = <<>> /\ counter = 0 /\ dir = <<>> /\ raised = "none"
        /\ walk = NoWalk
        /\ MainIdle

\* Lines 57-64: the folder, the counter, the matches.
ExtractBegin ==
    /\ pc = "x_call"
    /\ counter' = 0
    /\ locs' = finditer(font, 0)
    /\ pc' = "x_loop"
    /\ UNCHANGED <<font, size, made, dir, raised, walk>>
    /\ UNCHANGED mvars

IterState == [counter |-> counter, dir |-> dir, raised |-> raised]

IterResult == extract_iter(font, size, IterState, Head(locs))

IterApply ==
    /\ counter' = IterResult.counter
    /\ dir' = IterResult.dir
    /\ raised' = IterResult.raised
    /\ locs' = Tail(locs)
    /\ UNCHANGED <<font, size, made, walk>>

\* Lines 65-66: the width differs from size.
IterSkip ==
    /\ pc = "x_loop" /\ locs # <<>>
    /\ IterResult = IterState
    /\ IterApply
    /\ pc' = "x_loop"
    /\ UNCHANGED mvars

\* Lines 65-70: the stream is written to the next file.
IterEmit ==
    /\ pc = "x_loop" /\ locs # <<>>
    /\ IterResult.raised = "none" /\ IterResult.counter = counter + 1
    /\ IterApply
    /\ pc' = "x_loop"
    /\ UNCHANGED mvars

\* Lines 66, 37, 42: struct.error leaves extract_emoji.
IterRaise ==
    /\ pc = "x_loop" /\ locs # <<>>
    /\ IterResult.raised # "none"
    /\ IterApply
    /\ pc' = "x_raised"
    /\ UNCHANGED mvars

\* The for loop is exhausted: extract_emoji returns.
ExtractEnd ==
    /\ pc = "x_loop" /\ locs = <<>>
    /\ pc' = "x_returned"
    /\ UNCHANGED xvars
    /\ UNCHANGED mvars

NextExtract == ExtractBegin \/ IterSkip \/ IterEmit \/ IterRaise \/ ExtractEnd

SpecExtract == InitExtract /\ [][NextExtract]_vars

----------------------------------------------------------------------------
(* The main program: tiles, palette, matching, canvas. *)

\* Most files in a tile directory.
MaxTiles == 2

\* Largest emoji_size (--emoji-size).
MaxTile == 2

\* Most pixels of the working image (width * height).
MaxCells == 4

\* Line 228: a pixel whose smallest channel is at least this is skipped.
NearWhite == 252

Abs(n) == IF n < 0 THEN -n ELSE n

\* The files a tile directory may hold: a black, a white and a half
\* transparent grey emoji, a file named *.png that is no image, and a file
\* whose name does not contain "png". colour is what _set_colour measures.
TileFiles ==
    {[id |-> 1, png |-> TRUE, valid |-> TRUE, colour |-> <<0, 0, 0, 255>>],
     [id |-> 2, png |-> TRUE, valid |-> TRUE, colour |-> <<255, 255, 255, 255>>],
     [id |-> 3, png |-> TRUE, valid |-> TRUE, colour |-> <<20, 20, 20, 128>>],
     [id |-> 4, png |-> TRUE, valid |-> FALSE, colour |-> <<>>],
     [id |-> 5, png |-> FALSE, valid |-> FALSE, colour |-> <<>>]}

\* The listings of a directory of at most MaxTiles files, in any order
\* (os.listdir promises none).
TileDirs ==
    {l \in SeqsUpTo(TileFiles, MaxTiles) :
        \A i, j \in DOMAIN l : i # j => l[i] # l[j]}

\* The listings of an ./emoji a previous run left behind.
CachedDirs == {l \in TileDirs : Len(l) = 1}

\* The fonts the main program may find: filler and two streams; two streams,
\* the second cut short; filler only.
MainFonts ==
    {[kinds |-> <<"fill", "p1", "p2">>, cut |-> 0],
     [kinds |-> <<"p1", "p1">>, cut |-> 14],
     [kinds |-> <<"fill">>, cut |-> 0]}

\* The pixels get_pixel may return, by the mode of the working image.
Pixels(mode) ==
    IF mode = "RGB"
    THEN {<<10, 10, 10>>, <<251, 251, 251>>, <<255, 255, 255>>}
    ELSE {<<10, 10, 10, 255>>, <<255, 255, 255, 191>>, <<252, 252, 252, 252>>}

\* What Image.open and _set_colour make of an extracted file: an image when
\* the file is a whole stream (signature, IHDR, IDAT, ..., IEND), its colour
\* read from the pixel data.
Decode(file) ==
    LET d == file.data IN
    IF /\ Slice(d, 0, 8) = Signature
       /\ Slice(d, 37, 41) = IDAT
       /\ Len(d) >= 61
       /\ Slice(d, Len(d) - 12, Len(d)) = Chunk(IEND, <<>>)
    THEN [id |-> 10 + file.name, png |-> TRUE, valid |-> TRUE,
          colour |-> Slice(d, 41, 45)]
    ELSE [id |-> 10 + file.name, png |-> TRUE, valid |-> FALSE, colour |-> <<>>]

\* Emoji._process_emoji: the size x size raster of the emoji, RGBA when the
\* transparency is kept and RGB otherwise. Every pixel of every emoji is
\* told apart by (emoji, column, row).
process_emoji(file, sz, transp) ==
    [d \in (0..(sz - 1)) \X (0..(sz - 1)) |->
        IF transp THEN <<file.id, d[1], d[2], 0>> ELSE <<file.id, d[1], d[2]>>]

\* Emoji.__init__
Emoji(file, sz, transp) ==
    [image |-> process_emoji(file, sz, transp), colour |-> file.colour]

\* A distance that also counts the alpha channel.
get_distance_rgba(e, pixel) ==
    Abs(e.colour[1] - pixel[1]) + Abs(e.colour[2] - pixel[2])
        + Abs(e.colour[3] - pixel[3])
        + (IF Len(pixel) = 4 THEN Abs(e.colour[4] - pixel[4]) ELSE 0)

\* Emoji.get_distance
get_distance(e, pixel) ==
    Abs(e.colour[1] - pixel[1]) + Abs(e.colour[2] - pixel[2])
        + Abs(e.colour[3] - pixel[3])

\* Python's min(seq, key=...): the scan keeps the first element and replaces
\* it only by one with a strictly smaller key.
RECURSIVE min_scan(_, _, _, _)
min_scan(es, pixel, i, best) ==
    IF i > Len(es) THEN best
    ELSE min_scan(es, pixel, i + 1,
                  IF get_distance(es[i], pixel) < get_distance(es[best], pixel)
                  THEN i ELSE best)

\* Line 233: min(emoji, key=lambda x: x.get_distance(colour)), as an index
\* into a non-empty emoji.
min_emoji(es, pixel) == min_scan(es, pixel, 2, 1)

\* The smallest of the red, green and blue channels.
min_channel_rgb(pixel) == SetMin({pixel[1], pixel[2], pixel[3]})

\* min(colour)
min_channel(pixel) == SetMin({pixel[i] : i \in DOMAIN pixel})

\* A threshold test that leaves the alpha channel out.
near_white_rgb(pixel) == min_channel_rgb(pixel) >= NearWhite

\* Line 228.
near_white(pixel) == min_channel(pixel) >= NearWhite

\* A store that rewrites every entry with the new emoji.
cache_store_all(cache, key, tile) ==
    [k \in DOMAIN cache \cup {key} |-> tile]

\* Line 234: previous_colours[colour] = out_emoji
cache_store(cache, key, tile) ==
    [k \in DOMAIN cache \cup {key} |-> IF k = key THEN tile ELSE cache[k]]

\* Lines 125-126: the canvas background.
Background(transp) ==
    IF transp THEN <<255, 255, 255, 0>> ELSE <<255, 255, 255>>

\* Lines 123-126: Image.new(col_space, canvas_size, color=background)
new_canvas(w, h, sz, transp) ==
    [mode |-> IF transp THEN "RGBA" ELSE "RGB",
     size |-> <<w * sz, h * sz>>,
     px |-> [p \in (0..(w * sz - 1)) \X (0..(h * sz - 1)) |-> Background(transp)]]

\* A box at the cell's grid coordinates, not scaled by emoji_size.
paste_box_unscaled(cell, sz) == cell

\* Line 146: box=(pos[0] * emoji_size, pos[1] * emoji_size)
paste_box(cell, sz) == <<cell[1] * sz, cell[2] * sz>>

\* Image.paste(im, box) without a mask: the pixels of im replace those of
\* the canvas from box on, as far as the canvas reaches.
ImagePaste(cv, im, box, sz) ==
    [cv EXCEPT !.px =
        [p \in DOMAIN cv.px |->
            IF /\ p[1] - box[1] \in 0..(sz - 1)
               /\ p[2] - box[2] \in 0..(sz - 1)
            THEN im[<<p[1] - box[1], p[2] - box[2]>>]
            ELSE cv.px[p]]]

\* Picture.paste_emoji
paste_emoji(cv, cell, e, sz) == ImagePaste(cv, e.image, paste_box(cell, sz), sz)

\* The cell (x, y) the loops of lines 223-224 visit n-th, from 0.
CellOf(n, w) == <<n % w, n \div w>>

Init ==
    /\ pc = "m_start"
    /\ \E t \in 1..MaxTile, tr \in BOOLEAN :
        \/ \E l \in TileDirs :
               /\ args = [emoji |-> "given", emoji_size |-> t, transparency |-> tr]
               /\ fs = [font_exists |-> FALSE, font |-> NoFont,
                        emoji_dir |-> "absent", listing |-> l]
        \/ \E l \in CachedDirs :
               /\ args = [emoji |-> "none", emoji_size |-> t, transparency |-> tr]
               /\ fs = [font_exists |-> FALSE, font |-> NoFont,
                        emoji_dir |-> "filled", listing |-> l]
        \/ \E f \in MainFonts \cup {NoFont}, d \in {"absent", "empty"} :
               /\ args = [emoji |-> "none", emoji_size |-> t, transparency |-> tr]
               /\ fs = [font_exists |-> f # NoFont, font |-> f,
                        emoji_dir |-> d, listing |-> <<>>]
    /\ font = <<>> /\ size = 0 /\ made = NoMade /\ locs = <<>> /\ counter = 0
    /\ dir = <<>> /\ raised = "none" /\ walk = NoWalk
    /\ emoji = <<>> /\ image = NoImage /\ canvas = NoCanvas
    /\ previous_colours = <<>> /\ colour = <<>> /\ out_emoji = 0
    /\ pos = 0 /\ pasted = {} /\ lookups = 0 /\ last = "none"
    /\ saved = FALSE /\ exit_status = "running" /\ message = "none"

\* Line 191-192: the emoji have to be extracted from the font.
MustExtract == args.emoji = "none" /\ fs.emoji_dir \in {"absent", "empty"}

loopvars == <<image, canvas, previous_colours, colour, out_emoji, pos, pasted,
              lookups, last>>

\* Lines 191-200: no font file: the message and sys.exit(1).
ExtractFontMissing ==
    /\ pc = "m_start" /\ MustExtract
    /\ ~fs.font_exists
    /\ raised' = "FileNotFoundError"
    /\ message' = "Failed to auto-extract emoji"
    /\ exit_status' = "1"
    /\ pc' = "m_exited"
    /\ UNCHANGED <<font, size, made, locs, counter, dir, walk>>
    /\ UNCHANGED <<args, fs, emoji, saved>>
    /\ UNCHANGED loopvars

\* Lines 191-195: EmojiExtractor().extract_emoji(emoji_size) returns.
ExtractTiles ==
    /\ pc = "m_start" /\ MustExtract
    /\ fs.font_exists
    /\ LET r == extract_emoji(BlobBytes(fs.font), args.emoji_size) IN
           /\ r.raised = "none"
           /\ dir' = r.dir
           /\ fs' = [fs EXCEPT !.emoji_dir = IF r.dir = <<>> THEN "empty" ELSE "filled",
                               !.listing = [i \in DOMAIN r.dir |-> Decode(r.dir[i])]]
    /\ font' = BlobBytes(fs.font)
    /\ size' = args.emoji_size
    /\ pc' = "m_listing"
    /\ UNCHANGED <<made, locs, counter, raised, walk>>
    /\ UNCHANGED <<args, emoji, saved, exit_status, message>>
    /\ UNCHANGED loopvars

\* Lines 191-196: struct.error leaves extract_emoji; only FileNotFoundError
\* is caught, so the program ends with a traceback.
ExtractTilesRaise ==
    /\ pc = "m_start" /\ MustExtract
    /\ fs.font_exists
    /\ LET r == extract_emoji(BlobBytes(fs.font), args.emoji_size) IN
           /\ r.raised # "none"
           /\ dir' = r.dir
           /\ raised' = r.raised
           /\ fs' = [fs EXCEPT !.emoji_dir = IF r.dir = <<>> THEN "empty" ELSE "filled",
                               !.listing = [i \in DOMAIN r.dir |-> Decode(r.dir[i])]]
    /\ font' = BlobBytes(fs.font)
    /\ size' = args.emoji_size
    /\ exit_status' = "1"
    /\ pc' = "m_crashed"
    /\ UNCHANGED <<made, locs, counter, walk>>
    /\ UNCHANGED <<args, emoji, saved, message>>
    /\ UNCHANGED loopvars

\* Lines 191-192: a tile directory was given, or ./emoji holds files.
NoExtract ==
    /\ pc = "m_start" /\ ~MustExtract
    /\ pc' = "m_listing"
    /\ UNCHANGED <<xvars, mvars>>

\* Lines 204-209: the files whose name contains "png".
path_list == SelectSeq(fs.listing, LAMBDA f : f.png)

\* Lines 203-212: every listed file opens as an image.
BuildPalette ==
    /\ pc = "m_listing"
    /\ \A i \in DOMAIN path_list : path_list[i].valid
    /\ emoji' = [i \in DOMAIN path_list |->
                    Emoji(path_list[i], args.emoji_size, args.transparency)]
    /\ pc' = "m_picture"
    /\ UNCHANGED <<xvars, args, fs, saved, exit_status, message>>
    /\ UNCHANGED loopvars

\* Line 212: Image.open raises on a listed file that is no image; nothing
\* catches it.
BuildPaletteRaise ==
    /\ pc = "m_listing"
    /\ \E i \in DOMAIN path_list : ~path_list[i].valid
    /\ raised' = "OSError"
    /\ exit_status' = "1"
    /\ pc' = "m_crashed"
    /\ UNCHANGED <<font, size, made, locs, counter, dir, walk>>
    /\ UNCHANGED <<args, fs, emoji, saved, message>>
    /\ UNCHANGED loopvars

\* Lines 214-221: the Picture (working image and canvas) and the empty dict.
OpenPicture ==
    /\ pc = "m_picture"
    /\ \E w \in 1..MaxCells, h \in 1..MaxCells, m \in {"RGB", "RGBA"} :
           /\ w * h <= MaxCells
           /\ image' = [width |-> w, height |-> h, mode |-> m, px |-> <<>>]
           /\ canvas' = new_canvas(w, h, args.emoji_size, args.transparency)
    /\ previous_colours' = <<>>
    /\ pos' = 0
    /\ pc' = "m_loop"
    /\ UNCHANGED <<xvars, args, fs, emoji, colour, out_emoji, pasted, lookups,
                   last, saved, exit_status, message>>

Cells == image.width * image.height

\* Line 225: get_pixel returns the pixel c of the cell the loop is at. The
\* pixels read so far are kept, in row-major order.
ReadPixel(c) ==
    /\ pc = "m_loop" /\ pos < Cells
    /\ c \in Pixels(image.mode)
    /\ colour' = c
    /\ image' = [image EXCEPT !.px = Append(@, c)]

\* Lines 225-229: a pixel close to white is skipped.
PixelSkip ==
    \E c \in Pixels(image.mode) :
        /\ ReadPixel(c)
        /\ near_white(c)
        /\ pos' = pos + 1
        /\ last' = "skip"
        /\ UNCHANGED <<pc, xvars, args, fs, emoji, canvas, previous_colours,
                       out_emoji, pasted, lookups, saved, exit_status, message>>

\* Lines 225-231, 235: the colour is in previous_colours.
PixelCached ==
    \E c \in Pixels(image.mode) :
        /\ ReadPixel(c)
        /\ ~near_white(c)
        /\ c \in DOMAIN previous_colours
        /\ lookups' = lookups + 1
        /\ out_emoji' = previous_colours[c]
        /\ canvas' = paste_emoji(canvas, CellOf(pos, image.width),
                                 emoji[previous_colours[c]], args.emoji_size)
        /\ pasted' = pasted \cup {pos}
        /\ pos' = pos + 1
        /\ last' = "hit"
        /\ UNCHANGED <<pc, xvars, args, fs, emoji, previous_colours, saved,
                       exit_status, message>>

\* Lines 225-235: the colour is new; the emoji are scanned for the nearest.
PixelScanned ==
    \E c \in Pixels(image.mode) :
        /\ ReadPixel(c)
        /\ ~near_white(c)
        /\ c \notin DOMAIN previous_colours
        /\ emoji # <<>>
        /\ lookups' = lookups + 1
        /\ out_emoji' = min_emoji(emoji, c)
        /\ previous_colours' = cache_store(previous_colours, c, min_emoji(emoji, c))
        /\ canvas' = paste_emoji(canvas, CellOf(pos, image.width),
                                 emoji[min_emoji(emoji, c)], args.emoji_size)
        /\ pasted' = pasted \cup {pos}
        /\ pos' = pos + 1
        /\ last' = "scan"
        /\ UNCHANGED <<pc, xvars, args, fs, emoji, saved, exit_status, message>>

\* Line 233: min() of an empty list raises ValueError; nothing catches it.
PixelNoEmoji ==
    \E c \in Pixels(image.mode) :
        /\ ReadPixel(c)
        /\ ~near_white(c)
        /\ c \notin DOMAIN previous_colours
        /\ emoji = <<>>
        /\ lookups' = lookups + 1
        /\ raised' = "ValueError"
        /\ exit_status' = "1"
        /\ pc' = "m_crashed"
        /\ UNCHANGED <<font, size, made, locs, counter, dir, walk>>
        /\ UNCHANGED <<args, fs, emoji, canvas, previous_colours, out_emoji,
                       pos, pasted, last, saved, message>>

\* Lines 237-250: the loop is over; the canvas is saved.
SaveCanvas ==
    /\ pc = "m_loop" /\ pos = Cells
    /\ saved' = TRUE
    /\ exit_status' = "0"
    /\ pc' = "m_done"
    /\ UNCHANGED <<xvars, args, fs, emoji, message>>
    /\ UNCHANGED loopvars

Next ==
    \/ ExtractFontMissing \/ ExtractTiles \/ ExtractTilesRaise \/ NoExtract
    \/ BuildPalette \/ BuildPaletteRaise
    \/ OpenPicture
    \/ PixelSkip \/ PixelCached \/ PixelScanned \/ PixelNoEmoji
    \/ SaveCanvas

Spec == Init /\ [][Next]_vars

----------------------------------------------------------------------------
(* Properties of the extractor. *)

\* The bytes of the files written so far, in the order of their names.
Outputs == [i \in DOMAIN dir |-> dir[i].data]

\* The slices of the whole streams of the blob whose width is the target
\* size, in ascending offset order.
Expected ==
    LET hit == SelectSeq(made.streams, LAMBDA s : s.width = size) IN
    [i \in DOMAIN hit |-> Slice(font, hit[i].start, hit[i].start + hit[i].len)]

ExtractOver == pc \in {"x_returned", "x_raised"}

\* The blob ends inside a stream whose signature it still holds.
TruncatedInside ==
    \E i \in DOMAIN Streams(made.kinds, 0) :
        LET s == Streams(made.kinds, 0)[i] IN
        s.start + 8 <= Len(font) /\ Len(font) < s.start + s.len

\* C1: for a blob of filler and well-formed streams, extract_emoji(S) writes
\* exactly the streams of width S, in ascending offset order, each the blob
\* slice from its signature through its IEND chunk.
C1_ExactlyMatchingStreams ==
    (/\ ExtractOver
     /\ made.cut = 0
     /\ \A i \in DOMAIN made.kinds : made.kinds[i] # "stray")
        => (raised = "none" /\ Outputs = Expected)

\* C2: when the blob is truncated inside a candidate stream, no error leaves
\* extract_emoji and the outputs are exactly the well-formed matching streams:
\* nothing, not even an empty or partial file, for the dropped candidate.
C2_TruncatedCandidateDropped ==
    (TruncatedInside /\ \A i \in DOMAIN made.kinds :
                            made.kinds[i] \in {"fill", "p1", "p2"})
        => (raised = "none" /\ (ExtractOver => Outputs = Expected))

\* C3: the byte ranges emitted by one run are pairwise disjoint: no emitted
\* stream starts before the end of a stream emitted earlier.
C3_RangesDisjoint ==
    made.cut = 0 =>
        \A i, j \in DOMAIN dir :
            i < j => dir[i].start + Len(dir[i].data) <= dir[j].start

\* C10: the chunk walk of _extract_png terminates: every iteration moves the
\* read index on by at least 12 bytes, so the iterations number at most a
\* twelfth of the blob length, a declared length of 0 included.
C10_WalkBounded ==
    /\ 12 * walk.iters <= Len(font)
    /\ walk.status = "run" => walk.index >= walk.position + 20 + 12 * walk.iters
    /\ pc = "w_loop" => ENABLED NextWalk

\* A walk that crossed a chunk of declared length 0 and returned at IEND.
C10_Witness ==
    /\ pc = "w_returned"
    /\ walk.iters = 3
    /\ Slice(font, walk.position + 49, walk.position + 53) = <<0, 0, 0, 0>>
    /\ Slice(font, walk.position + 53, walk.position + 57) = tEXt

----------------------------------------------------------------------------
(* Properties of the main program. *)

\* The sum of the absolute differences of the red, green and blue channels.
RgbL1(a, b) == Abs(a[1] - b[1]) + Abs(a[2] - b[2]) + Abs(a[3] - b[3])

\* Some channel of the pixel is below 252.
BelowThreshold(pixel) == \E ch \in DOMAIN pixel : pixel[ch] < 252

InLoop == pc \in {"m_loop", "m_done"} \/ (pc = "m_crashed" /\ raised = "ValueError")

\* C4: on a cache miss the emoji selected minimises |r-r'| + |g-g'| + |b-b'|
\* to the queried colour, alpha never counting, and among the emoji at the
\* minimum it is the earliest of the palette.
C4_NearestEarliest ==
    (InLoop /\ last = "scan") =>
        /\ out_emoji \in DOMAIN emoji
        /\ \A j \in DOMAIN emoji :
               /\ RgbL1(emoji[out_emoji].colour, colour)
                      <= RgbL1(emoji[j].colour, colour)
               /\ j < out_emoji =>
                      RgbL1(emoji[out_emoji].colour, colour)
                          < RgbL1(emoji[j].colour, colour)

\* A scan that chose the earlier of two emoji at the same distance whose
\* alpha differs from each other.
C4_Witness ==
    /\ InLoop /\ last = "scan"
    /\ \E j \in DOMAIN emoji :
           /\ j > out_emoji
           /\ RgbL1(emoji[j].colour, colour) = RgbL1(emoji[out_emoji].colour, colour)
           /\ emoji[j].colour[4] # emoji[out_emoji].colour[4]

CacheExact ==
    \A c \in DOMAIN previous_colours : previous_colours[c] = min_emoji(emoji, c)

CacheGrows ==
    \A c \in DOMAIN previous_colours :
        c \in DOMAIN previous_colours' /\ previous_colours'[c] = previous_colours[c]

HitAsScan ==
    (pos' = pos + 1 /\ last' = "hit") => out_emoji' = min_emoji(emoji, colour')

\* C5: every key of previous_colours maps to the emoji a full scan of the
\* palette returns for it; entries are added, never changed or removed; a
\* query answered from the cache returns what a scan would.
C5_CacheExactAndGrowing == []CacheExact /\ [][CacheGrows /\ HitAsScan]_vars

\* A query answered from a cache of two colours.
C5_Witness ==
    /\ InLoop /\ last = "hit"
    /\ Cardinality(DOMAIN previous_colours) >= 2
    /\ Len(emoji) >= 2

\* The pixels read so far (1-based) that are not close to white.
ReadBelow == {n \in DOMAIN image.px : BelowThreshold(image.px[n])}

\* The canvas pixels of cell n (0-based, row-major).
Block(n) ==
    LET cell == CellOf(n, image.width) IN
    {<<cell[1] * args.emoji_size + dx, cell[2] * args.emoji_size + dy>> :
        dx \in 0..(args.emoji_size - 1), dy \in 0..(args.emoji_size - 1)}

BackgroundColour ==
    IF args.transparency THEN <<255, 255, 255, 0>> ELSE <<255, 255, 255>>

\* C6: an emoji is placed in a finished cell if and only if some channel of
\* its pixel is below 252; a pixel with every channel at 252 or more causes
\* no paste, no lookup and no insertion in previous_colours, and its cell
\* stays at the background.
C6_PlacedIffBelow252 ==
    InLoop =>
        /\ \A n \in 0..(pos - 1) : n \in pasted <=> BelowThreshold(image.px[n + 1])
        /\ pasted \subseteq 0..(pos - 1)
        /\ lookups = Cardinality(ReadBelow)
        /\ DOMAIN previous_colours \subseteq {image.px[n] : n \in ReadBelow}
        /\ \A n \in 0..(pos - 1) :
               ~BelowThreshold(image.px[n + 1]) =>
                   \A p \in Block(n) : canvas.px[p] = BackgroundColour

\* (255,255,255) was skipped and (251,251,251) was placed in one run;
\* (252,252,252,252) was skipped and (255,255,255,191) placed in another.
C6_Witness ==
    /\ pc = "m_done"
    /\ \E a, b \in 0..(pos - 1) :
           \/ /\ image.px[a + 1] = <<255, 255, 255>> /\ a \notin pasted
              /\ image.px[b + 1] = <<251, 251, 251>> /\ b \in pasted
           \/ /\ image.px[a + 1] = <<252, 252, 252, 252>> /\ a \notin pasted
              /\ image.px[b + 1] = <<255, 255, 255, 191>> /\ b \in pasted

\* C7: the canvas is (W*T) x (H*T); the block of every finished cell whose
\* pixel is not close to white is the raster of the nearest emoji, and
\* every other block is the background: so it is once the loop is over.
C7_CanvasBlocks ==
    InLoop =>
        /\ canvas.size = <<image.width * args.emoji_size,
                           image.height * args.emoji_size>>
        /\ DOMAIN canvas.px =
               (0..(image.width * args.emoji_size - 1))
                   \X (0..(image.height * args.emoji_size - 1))
        /\ \A n \in 0..(Cells - 1) :
               LET cell == CellOf(n, image.width) IN
               \A dx, dy \in 0..(args.emoji_size - 1) :
                   canvas.px[<<cell[1] * args.emoji_size + dx,
                               cell[2] * args.emoji_size + dy>>]
                     = IF n < pos /\ BelowThreshold(image.px[n + 1])
                       THEN emoji[min_emoji(emoji, image.px[n + 1])].image[<<dx, dy>>]
                       ELSE BackgroundColour

\* A finished 2 x 2 image with emoji of size 2: two different emoji placed
\* and a cell left at the transparent background.
C7_Witness ==
    /\ pc = "m_done"
    /\ image.width = 2 /\ image.height = 2 /\ args.emoji_size = 2
    /\ args.transparency
    /\ Cardinality(pasted) = 3
    /\ \E p, q \in DOMAIN canvas.px :
           canvas.px[p][1] \notin {255, canvas.px[q][1]} /\ canvas.px[q][1] # 255

\* C8: with an empty palette the run never saves an output image and never
\* ends with exit status 0.
C8_EmptyPaletteNeverSaves ==
    emoji = <<>> => (~saved /\ exit_status # "0")

\* The palette build was reached.
BuildReached ==
    \/ pc \in {"m_picture", "m_loop", "m_done"}
    \/ pc = "m_crashed" /\ raised \in {"OSError", "ValueError"}

\* C9: a listed file that is no image is left out and the build goes on
\* with the others: with one valid tile at least, no decode error ends the
\* run and the palette is the valid tiles.
C9_InvalidTileExcluded ==
    (BuildReached /\ \E i \in DOMAIN path_list : path_list[i].valid) =>
        /\ raised # "OSError"
        /\ Len(emoji) = Len(SelectSeq(path_list, LAMBDA f : f.valid))

====
